---- MODULE Spec2Model ----
(***************************************************************************)
(* PyJEMService (src/pyjem_service/__init__.py): the bridge between the    *)
(* message bus and the microscope.  One control-loop thread runs run_once  *)
(* for ever; the transport delivers motion, rotation and scope commands on *)
(* its own threads.  Every handler and publisher takes the re-entrant      *)
(* scope_lock.                                                             *)
(*                                                                         *)
(* Units.  Stage translations are integers in device units.  Angles are    *)
(* fixed-point numbers: a number of radians r is held as r * 10^5 and a    *)
(* number of degrees d is held in hundredths of a degree, d * 100.  A raw  *)
(* numeric comparison of a radian number with a degree number (as          *)
(* in_motion makes) is done on the common scale 10^5, see Scale.           *)
(***************************************************************************)
EXTENDS Integers, Sequences, FiniteSets, TLC

\* ------------------------------------------------------------------ bounds

\* Commands the transport delivers in one run.
MaxCmds == 2

\* Ticks of the control loop remembered by the observer `ticks`.
HistLen == 2

\* ------------------------------------------------------- program constants

\* math.pi, scaled by 10^5.
PI5 == 314159

\* The default of the constructor's trans_tol.
DefaultTransTol == 60

\* retry = 3 in scope_callback.
Retries == 3

Abs(n) == IF n < 0 THEN -n ELSE n

\* a / b rounded to the nearest integer (a >= 0, b > 0), as a float division
\* followed by the fixed-point representation rounds.
RoundDiv(a, b) == (2 * a + b) \div (2 * b)

\* d * pi / 180: hundredths of a degree to radians * 10^5.
DegToRad(d) == RoundDiv(d * PI5, 18000)

\* r * 180 / pi: radians * 10^5 to hundredths of a degree.
RadToDeg(r) == RoundDiv(r * 18000, PI5)

\* A number of degrees held in hundredths, as the plain number on the 10^5 scale
\* that radians are held on.
Scale(d) == d * 1000

\* The default of the constructor's rot_tol, 0.2 * pi / 180.
DefaultRotTol == DegToRad(20)

MAG_MODES == [m \in {"MAG1", "MAG2", "LM"} |->
                 CASE m = "MAG1" -> 0 [] m = "MAG2" -> 1 [] m = "LM" -> 2]

MagKeys == << 2000, 2500, 3000, 4000, 5000, 6000, 8000, 10000, 12000, 15000,
              20000, 25000, 30000, 40000, 50000, 60000, 80000, 100000, 120000,
              150000, 200000, 250000, 300000, 500000, 600000, 800000, 1000000,
              1200000 >>

LowMagKeys == << 50, 100, 120, 150, 200, 250, 300, 400, 500, 600, 800, 1000,
                 1200, 1500 >>

\* A dict value -> index, from the keys in index order.
TableOf(keys) == [k \in {keys[i] : i \in 1..Len(keys)} |->
                     (CHOOSE i \in 1..Len(keys) : keys[i] = k) - 1]

MAG_TABLE == TableOf(MagKeys)

LOWMAG_TABLE == TableOf(LowMagKeys)

\* mag_table = self.LOWMAG_TABLE if msg.mag_mode == "LM" else self.MAG_TABLE
SelectTable(mag_mode) == IF mag_mode = "LM" THEN LOWMAG_TABLE ELSE MAG_TABLE

\* ----------------------------------------------------------------- inputs

Axes == {"x", "y", "z", "tx", "ty"}

TransAxes == {"x", "y", "z"}

RotAxes == {"tx", "ty"}

Loop == "loop"

Callbacks == {"cb1", "cb2"}

Threads == {Loop} \cup Callbacks

\* Values a translation command carries (device units).
CmdPos == {100}

\* Values a rotation command carries (radians * 10^5): one degree.
CmdAngle == {DegToRad(100)}

\* A message is a record of its fields and `has`, the fields that are not None;
\* a field that is None holds the filler value of its type.
Has(m, f) == f \in m.has

\* The values of field f in a message whose present fields are h.
Opt(f, h, vals, filler) == IF f \in h THEN vals ELSE {filler}

MotionFields == {"x", "y", "z"}

MotionMsgs ==
    UNION {[kind : {"motion"}, has : {h},
            x : Opt("x", h, CmdPos, 0), y : Opt("y", h, CmdPos, 0),
            z : Opt("z", h, CmdPos, 0)] : h \in SUBSET MotionFields}

RotationFields == {"angle_x", "angle_y"}

RotationMsgs ==
    UNION {[kind : {"rotation"}, has : {h},
            angle_x : Opt("angle_x", h, CmdAngle, 0),
            angle_y : Opt("angle_y", h, CmdAngle, 0)] : h \in SUBSET RotationFields}

\* A scope command with every field None, and one with a field given.
NoFields == [kind |-> "scope", has |-> {}, focus |-> 0, brightness |-> 0,
             mag |-> 0, mag_mode |-> "None", spot_size |-> 0,
             beam_offset |-> <<>>, screen |-> "None"]

With(m, f, v) == [m EXCEPT ![f] = v, !.has = @ \cup {f}]

\* A magnification with its mode; 50 is a key of the low-mag table only and
\* 2000 a key of the standard table only.
WithMag(m, mag, mode) == With(With(m, "mag", mag), "mag_mode", mode)

WithSettings(m) ==
    With(With(With(m, "spot_size", 3), "beam_offset", <<1, 2>>), "screen", "down")

\* The scope commands the transport delivers: brightness and focus on their
\* own; a magnification of the selected table; one that is not in it, with
\* focus and brightness; one without a mode; the other settings.
ScopeMsgs ==
    { With(NoFields, "brightness", 10),
      With(NoFields, "brightness", 25),
      With(With(NoFields, "focus", 5), "brightness", 10),
      WithMag(NoFields, 120, "LM"),
      WithMag(With(With(NoFields, "focus", 5), "brightness", 25), 50, "MAG1"),
      WithSettings(With(NoFields, "mag", 2000)),
      WithSettings(WithMag(With(NoFields, "focus", 5), 2000, "MAG1")) }

NoMsg == [kind |-> "none", has |-> {}]

\* What the transport delivers in a run: the threads it calls back on and the
\* messages of each topic.  "all": the three topics on two threads, with few
\* messages; "scope", "motion", "rotation": every command of one topic, on one
\* thread; "stage": translation and rotation commands with every axis or the
\* last one only, on one thread; "live": one scope command, on two threads;
\* "none": nothing.
Transports ==
    [all |-> [threads |-> Callbacks,
              motion |-> {m \in MotionMsgs : m.has = {"x"}},
              rotation |-> {m \in RotationMsgs : m.has = {"angle_x"}},
              scope |-> {WithMag(With(NoFields, "brightness", 10), 120, "LM")}],
     scope |-> [threads |-> {"cb1"}, motion |-> {}, rotation |-> {},
                scope |-> ScopeMsgs],
     motion |-> [threads |-> {"cb1"}, motion |-> MotionMsgs, rotation |-> {},
                 scope |-> {}],
     rotation |-> [threads |-> {"cb1"}, motion |-> {},
                   rotation |-> RotationMsgs, scope |-> {}],
     stage |-> [threads |-> {"cb1"},
                motion |-> {m \in MotionMsgs : m.has \in {MotionFields, {"z"}}},
                rotation |-> {m \in RotationMsgs :
                                 m.has \in {RotationFields, {"angle_y"}}},
                scope |-> {}],
     live |-> [threads |-> Callbacks, motion |-> {}, rotation |-> {},
               scope |-> {WithMag(With(NoFields, "brightness", 10), 120, "LM")}],
     none |-> [threads |-> {}, motion |-> {}, rotation |-> {}, scope |-> {}]]

\* The stage at rest at the origin when the service starts.
StartReadbacks == [x : {0}, y : {0}, z : {0}, tx : {0}, ty : {0}]

StartTols == [trans : {DefaultTransTol}, rot : {DefaultRotTol}]

\* ------------------------------------------------------------------ state

VARIABLES
    trans_tol, rot_tol,      \* self.trans_tol, self.rot_tol
    transport,               \* what the transport delivers in this run, and on which threads
    lock,                    \* self.scope_lock: [owner, count]
    setpoint,                \* self.x, self.y, self.z, self.tx, self.ty
    focus, brightness,       \* self.focus, self.brightness
    was_in_motion,           \* self.was_in_motion
    stage_age, scope_age,    \* time.time() - self.last_*_status, as a class
    hwpos, hwtgt,            \* the stage: live position and where it is driven to
    eos, defl,               \* the optics: what the Set calls have done
    sent,                    \* observer: what the status call in progress sent, by topic
    pc, stack, msg, exc,     \* each thread: position, return addresses, message, exception
    retry,                   \* scope_callback's retry
    rb, im_ret,              \* in_motion: its read-back, its result
    ro_in_motion, period,    \* run_once: in_motion, period
    ss_rb, ss_in_motion,     \* stage_status: its read-back, in_motion
    ncmds,                   \* observer: commands delivered so far
    snap,                    \* observer: tracked state when the handler took the lock
    hwcalls,                 \* observer: hardware calls of the command in progress
    attempts,                \* observer: outcomes of SelectFunctionMode in this command
    warnings,                \* observer: warnings logged by this command
    faults,                  \* observer: hardware calls of this command that raised
    published,               \* observer: scope.status messages this command sent
    issued,                  \* observer: the deltas sent to the hardware
    nfailed,                 \* observer: commands that failed so far
    ticks                    \* observer: the last ticks' (in_motion, period)

config == <<trans_tol, rot_tol, transport>>

service == <<config, setpoint, focus, brightness, was_in_motion>>

timers == <<stage_age, scope_age>>

hardware == <<hwpos, hwtgt, eos, defl>>

looplocals == <<rb, im_ret, ro_in_motion, period, ss_rb, ss_in_motion>>

cblocals == <<msg, retry>>

observers == <<ncmds, snap, hwcalls, attempts, warnings, faults, published,
              issued, nfailed, ticks>>

vars == <<service, timers, hardware, lock, sent, pc, stack, exc, looplocals,
          cblocals, observers>>

\* ------------------------------------------------------------ the lock

Free == [owner |-> "none", count |-> 0]

\* A lock that excludes nobody: acquire always succeeds.
CanAcquireAlways(t) == TRUE

\* RLock.acquire: the lock is free, or the caller owns it already.
CanAcquire(t) == lock.owner = "none" \/ lock.owner = t

Acquired(t) == [owner |-> t, count |-> lock.count + 1]

\* A release that frees the lock only when it is held once.
ReleasedOuter(t) == IF lock.count <= 1 THEN Free ELSE lock

\* RLock.release at the end of a with block.
Released(t) == IF lock.count <= 1 THEN Free ELSE [lock EXCEPT !.count = @ - 1]

\* ----------------------------------------------------------- the threads

Goto(t, p) == pc' = [pc EXCEPT ![t] = p]

\* A call: the callee's first position, the caller's next one on the stack.
Call(t, callee, ret) ==
    /\ pc' = [pc EXCEPT ![t] = callee]
    /\ stack' = [stack EXCEPT ![t] = <<ret>> \o @]

\* Where an exception raised by a callee lands in the caller: the end of the
\* caller's with block, or, in run_once and run, which catch nothing, out of
\* the thread.
Landing(ret) ==
    CASE ret = "ss_send1" -> "ss_unlock"
      [] ret = "s_unlock" -> "s_unlock"
      [] OTHER -> "dead"

\* The end of a callee's with block: back to the caller, or unwinding into it.
Return(t) ==
    /\ pc' = [pc EXCEPT ![t] = IF exc[t] = "none" THEN Head(stack[t])
                                ELSE Landing(Head(stack[t]))]
    /\ stack' = [stack EXCEPT ![t] = Tail(@)]

Raise(t, e) == exc' = [exc EXCEPT ![t] = e]

\* A hardware call of a command raised TEM3Error.
Failed(t) == faults' = [faults EXCEPT ![t] = @ + 1]

ZeroPos == [a \in Axes |-> 0]

NoPayload == [topic |-> "none"]

NoSnap == [setpoint |-> ZeroPos, hwtgt |-> ZeroPos, focus |-> 0, brightness |-> 0]

\* ----------------------------------------------------------- construction

\* __init__: the set-points are seeded from the first read-back, the tilts
\* converted to radians.
Seed(r) == [x |-> r.x, y |-> r.y, z |-> r.z, tx |-> DegToRad(r.tx), ty |-> DegToRad(r.ty)]

Constructed(r, tol, sp, tr) ==
    /\ trans_tol = tol.trans
    /\ rot_tol = tol.rot
    /\ transport = tr
    /\ lock = Free
    /\ setpoint = sp
    /\ focus = 0
    /\ brightness = 0
    /\ was_in_motion = FALSE
    /\ stage_age = 0
    /\ scope_age = 0
    /\ hwpos = r
    /\ hwtgt = r
    /\ eos = [focus |-> 0, brightness |-> 0, mode |-> 0, selector |-> 0, spot |-> 0]
    /\ defl = [cla1 |-> <<0, 0>>, blank |-> FALSE]
    /\ sent = [motion |-> NoPayload, rotation |-> NoPayload, scope |-> NoPayload]
    /\ pc = [t \in Threads |-> IF t = Loop THEN "ro_start" ELSE "idle"]
    /\ stack = [t \in Threads |-> <<>>]
    /\ msg = [t \in Callbacks |-> NoMsg]
    /\ exc = [t \in Threads |-> "none"]
    /\ retry = [t \in Callbacks |-> 0]
    /\ rb = ZeroPos
    /\ im_ret = FALSE
    /\ ro_in_motion = FALSE
    /\ period = "none"
    /\ ss_rb = ZeroPos
    /\ ss_in_motion = FALSE
    /\ ncmds = 0
    /\ snap = [t \in Callbacks |-> NoSnap]
    /\ hwcalls = [t \in Callbacks |-> 0]
    /\ attempts = [t \in Callbacks |-> <<>>]
    /\ warnings = [t \in Callbacks |-> 0]
    /\ faults = [t \in Callbacks |-> 0]
    /\ published = [t \in Callbacks |-> 0]
    /\ issued = [f \in {"focus", "brightness"} |->
                    [n |-> 0, before |-> 0, value |-> 0, delta |-> 0]]
    /\ nfailed = 0
    /\ ticks = <<>>

Started(readbacks, tols, tr) ==
    \E r \in readbacks, tol \in tols : Constructed(r, tol, Seed(r), tr)

Init == Started(StartReadbacks, StartTols, "all")

\* -------------------------------------------------------------- in_motion

\* any([abs(s - p) > self.trans_tol ...] + [abs(s - p) > self.rot_tol ...]):
\* s the set-point, p the read-back as GetPos returned it.
InMotionOf(sp, p, ttol, rtol) ==
    \/ \E a \in TransAxes : Abs(sp[a] - p[a]) > ttol
    \/ \E a \in RotAxes : Abs(sp[a] - Scale(p[a])) > rtol

InMotionLock ==
    /\ pc[Loop] = "im_lock"
    /\ CanAcquire(Loop)
    /\ lock' = Acquired(Loop)
    /\ Goto(Loop, "im_getpos")
    /\ UNCHANGED <<service, timers, hardware, sent, stack, exc, looplocals,
                   cblocals, observers>>

\* x, y, z, tx, ty = self.stage.GetPos(), which may raise; return any(...)
InMotionGetPos ==
    /\ pc[Loop] = "im_getpos"
    /\ \/ /\ rb' = hwpos
          /\ im_ret' = InMotionOf(setpoint, hwpos, trans_tol, rot_tol)
          /\ UNCHANGED exc
       \/ /\ Raise(Loop, "TEM3Error")
          /\ UNCHANGED <<rb, im_ret>>
    /\ Goto(Loop, "im_unlock")
    /\ UNCHANGED <<service, timers, hardware, lock, sent, stack, ro_in_motion,
                   period, ss_rb, ss_in_motion, cblocals, observers>>

InMotionUnlock ==
    /\ pc[Loop] = "im_unlock"
    /\ lock' = Released(Loop)
    /\ Return(Loop)
    /\ rb' = ZeroPos
    /\ UNCHANGED <<service, timers, hardware, sent, exc, im_ret, ro_in_motion,
                   period, ss_rb, ss_in_motion, cblocals, observers>>

\* --------------------------------------------------------------- run_once

FastPeriod == "fast"

SlowPeriod == "slow"

\* The elapsed time since a publication, as a class: 0 is at most 1/50 s,
\* 1 is more than 1/50 s and at most 1 s, 2 is more than 1 s.  The scope
\* publication is compared with 1 s only: its classes are 0 (at most 1 s) and 2.
Ages == 0..2

\* time.time() - last > period
Due(age, p) == IF p = FastPeriod THEN age >= 1 ELSE age >= 2

\* The period chosen from this tick's in_motion alone, the latch forgotten.
PeriodOfInMotion(in_motion, latch) == IF in_motion THEN FastPeriod ELSE SlowPeriod

\* period = 1 / 50 if (in_motion := self.in_motion) or self.was_in_motion else 1
PeriodOf(in_motion, latch) == IF in_motion \/ latch THEN FastPeriod ELSE SlowPeriod

Remember(h, e) == IF Len(h) < HistLen THEN Append(h, e) ELSE Append(Tail(h), e)

RunOnceInMotion ==
    /\ pc[Loop] = "ro_start"
    /\ Call(Loop, "im_lock", "ro_period")
    /\ UNCHANGED <<service, timers, hardware, lock, sent, exc, looplocals,
                   cblocals, observers>>

RunOncePeriod ==
    /\ pc[Loop] = "ro_period"
    /\ ro_in_motion' = im_ret
    /\ period' = PeriodOf(im_ret, was_in_motion)
    /\ im_ret' = FALSE
    /\ ticks' = Remember(ticks, [in_motion |-> im_ret,
                                 period |-> PeriodOf(im_ret, was_in_motion)])
    /\ Goto(Loop, "ro_latch")
    /\ UNCHANGED <<service, timers, hardware, lock, sent, stack, exc, rb, ss_rb,
                   ss_in_motion, cblocals, ncmds, snap, hwcalls, attempts,
                   warnings, faults, published, issued, nfailed>>

\* self.was_in_motion = in_motion
Latched(in_motion) == in_motion

RunOnceLatch ==
    /\ pc[Loop] = "ro_latch"
    /\ was_in_motion' = Latched(ro_in_motion)
    /\ Goto(Loop, "ro_stage")
    /\ UNCHANGED <<config, setpoint, focus, brightness, timers,
                   hardware, lock, sent, stack, exc, looplocals, cblocals,
                   observers>>

RunOnceStage ==
    /\ pc[Loop] = "ro_stage"
    /\ IF Due(stage_age, period)
       THEN Call(Loop, "ss_lock", "ro_scope")
       ELSE Goto(Loop, "ro_scope") /\ UNCHANGED stack
    /\ UNCHANGED <<service, timers, hardware, lock, sent, exc, looplocals,
                   cblocals, observers>>

RunOnceScope ==
    /\ pc[Loop] = "ro_scope"
    /\ IF Due(scope_age, SlowPeriod)
       THEN Call(Loop, "st_lock", "ro_sleep")
       ELSE Goto(Loop, "ro_sleep") /\ UNCHANGED stack
    /\ UNCHANGED <<service, timers, hardware, lock, sent, exc, looplocals,
                   cblocals, observers>>

\* run: time.sleep(0.01) between two calls of run_once; the time that has
\* passed since the last publications grows, by this sleep and by whatever the
\* tick took.
RunSleep ==
    /\ pc[Loop] = "ro_sleep"
    /\ \E a \in Ages, b \in Ages \ {1} :
          /\ a >= stage_age
          /\ b >= scope_age
          /\ stage_age' = a
          /\ scope_age' = b
    /\ ro_in_motion' = FALSE
    /\ period' = "none"
    /\ Goto(Loop, "ro_start")
    /\ UNCHANGED <<service, hardware, lock, sent, stack, exc, rb, im_ret, ss_rb,
                   ss_in_motion, cblocals, observers>>

\* ----------------------------------------------------------- stage_status

StageStatusLock ==
    /\ pc[Loop] = "ss_lock"
    /\ CanAcquire(Loop)
    /\ lock' = Acquired(Loop)
    /\ Goto(Loop, "ss_getpos")
    /\ UNCHANGED <<service, timers, hardware, sent, stack, exc, looplocals,
                   cblocals, observers>>

StageStatusGetPos ==
    /\ pc[Loop] = "ss_getpos"
    /\ \/ /\ ss_rb' = hwpos
          /\ Goto(Loop, "ss_inmotion")
          /\ UNCHANGED exc
       \/ /\ Raise(Loop, "TEM3Error")
          /\ Goto(Loop, "ss_unlock")
          /\ UNCHANGED ss_rb
    /\ UNCHANGED <<service, timers, hardware, lock, sent, stack, rb, im_ret,
                   ro_in_motion, period, ss_in_motion, cblocals, observers>>

\* in_motion=(in_motion := self.in_motion), evaluated before the first send.
StageStatusInMotion ==
    /\ pc[Loop] = "ss_inmotion"
    /\ Call(Loop, "im_lock", "ss_send1")
    /\ UNCHANGED <<service, timers, hardware, lock, sent, exc, looplocals,
                   cblocals, observers>>

StageStatusSendMotion ==
    /\ pc[Loop] = "ss_send1"
    /\ ss_in_motion' = im_ret
    /\ im_ret' = FALSE
    /\ sent' = [sent EXCEPT !.motion = [topic |-> "stage.motion.status",
                    x |-> ss_rb.x, y |-> ss_rb.y, z |-> ss_rb.z,
                    in_motion |-> im_ret]]
    /\ Goto(Loop, "ss_send2")
    /\ UNCHANGED <<service, timers, hardware, lock, stack, exc, rb,
                   ro_in_motion, period, ss_rb, cblocals, observers>>

\* The rotation status with in_motion evaluated again when it is sent.
StageStatusSendRotationAgain ==
    /\ pc[Loop] = "ss_send2"
    /\ sent' = [sent EXCEPT !.rotation = [topic |-> "stage.rotation.status",
                    angle_x |-> DegToRad(ss_rb.tx), angle_y |-> DegToRad(ss_rb.ty),
                    eucentric_height |-> 0,
                    in_motion |-> InMotionOf(setpoint, hwpos, trans_tol, rot_tol)]]
    /\ Goto(Loop, "ss_stamp")
    /\ UNCHANGED <<service, timers, hardware, lock, stack, exc, looplocals,
                   cblocals, observers>>

StageStatusSendRotation ==
    /\ pc[Loop] = "ss_send2"
    /\ sent' = [sent EXCEPT !.rotation = [topic |-> "stage.rotation.status",
                    angle_x |-> DegToRad(ss_rb.tx), angle_y |-> DegToRad(ss_rb.ty),
                    eucentric_height |-> 0, in_motion |-> ss_in_motion]]
    /\ Goto(Loop, "ss_stamp")
    /\ UNCHANGED <<service, timers, hardware, lock, stack, exc, looplocals,
                   cblocals, observers>>

\* self.last_stage_status = time.time()
StageStatusStamp ==
    /\ pc[Loop] = "ss_stamp"
    /\ stage_age' = 0
    /\ Goto(Loop, "ss_unlock")
    /\ UNCHANGED <<service, scope_age, hardware, lock, sent, stack, exc,
                   looplocals, cblocals, observers>>

StageStatusUnlock ==
    /\ pc[Loop] = "ss_unlock"
    /\ lock' = Released(Loop)
    /\ Return(Loop)
    /\ ss_rb' = ZeroPos
    /\ ss_in_motion' = FALSE
    /\ im_ret' = FALSE
    /\ sent' = [sent EXCEPT !.motion = NoPayload, !.rotation = NoPayload]
    /\ UNCHANGED <<service, timers, hardware, exc, rb, ro_in_motion, period,
                   cblocals, observers>>

\* ----------------------------------------------------------- scope_status

\* "MAG" if self.eos.GetFunctionMode()[0] < 2 else "LM"
ModeLabel(mode) == IF mode < 2 THEN "MAG" ELSE "LM"

\* GetMagValue: the magnification the instrument shows for a mode and a
\* selector index.
MagValue(mode, selector) ==
    LET keys == IF mode = MAG_MODES["LM"] THEN LowMagKeys ELSE MagKeys
    IN  IF selector + 1 <= Len(keys) THEN keys[selector + 1] ELSE 0

ScopeStatusLock(t) ==
    /\ pc[t] = "st_lock"
    /\ CanAcquire(t)
    /\ lock' = Acquired(t)
    /\ Goto(t, "st_read")
    /\ UNCHANGED <<service, timers, hardware, sent, stack, exc, looplocals,
                   cblocals, observers>>

\* The read-backs that make the payload: GetFunctionMode, GetMagValue,
\* GetHtCurrentValue, GetSpotSize, GetCLA1, GetBeamBlank; any may raise.
ScopeStatusRead(t) ==
    /\ pc[t] = "st_read"
    /\ \/ /\ Goto(t, "st_send")
          /\ UNCHANGED <<exc, faults>>
       \/ /\ Raise(t, "TEM3Error")
          /\ IF t \in Callbacks THEN Failed(t) ELSE UNCHANGED faults
          /\ Goto(t, "st_unlock")
    /\ UNCHANGED <<service, timers, hardware, lock, sent, stack, looplocals,
                   cblocals, ncmds, snap, hwcalls, attempts, warnings, published, issued,
                   nfailed, ticks>>

ScopeStatusSend(t) ==
    /\ pc[t] = "st_send"
    /\ sent' = [sent EXCEPT !.scope = [topic |-> "scope.status",
                    focus |-> focus, mag_mode |-> ModeLabel(eos.mode),
                    mag |-> MagValue(eos.mode, eos.selector),
                    spot_size |-> eos.spot, beam_offset |-> defl.cla1,
                    screen |-> IF defl.blank THEN "down" ELSE "up",
                    brightness |-> brightness]]
    /\ published' = IF t \in Callbacks THEN [published EXCEPT ![t] = @ + 1]
                    ELSE published
    /\ Goto(t, "st_stamp")
    /\ UNCHANGED <<service, timers, hardware, lock, stack, exc, looplocals,
                   cblocals, ncmds, snap, hwcalls, attempts, warnings, faults,
                   issued, nfailed, ticks>>

\* self.last_scope_status = time.time()
ScopeStatusStamp(t) ==
    /\ pc[t] = "st_stamp"
    /\ scope_age' = 0
    /\ Goto(t, "st_unlock")
    /\ UNCHANGED <<service, stage_age, hardware, lock, sent, stack, exc,
                   looplocals, cblocals, observers>>

ScopeStatusUnlock(t) ==
    /\ pc[t] = "st_unlock"
    /\ lock' = Released(t)
    /\ Return(t)
    /\ sent' = [sent EXCEPT !.scope = NoPayload]
    /\ UNCHANGED <<service, timers, hardware, exc, looplocals, cblocals,
                   observers>>

\* ---------------------------------------------------------- the transport

\* The transport calls a subscribed callback on one of its threads.  Nothing
\* reads the message before the callback holds the lock, so the message's
\* content enters the state there (HandlerLock).
Deliver(t, first) ==
    /\ pc[t] = "idle"
    /\ t \in Transports[transport].threads
    /\ ncmds < MaxCmds
    /\ ncmds' = ncmds + 1
    /\ Goto(t, first)
    /\ UNCHANGED <<service, timers, hardware, lock, sent, stack, exc, looplocals,
                   cblocals, snap, hwcalls, attempts, warnings, faults, published, issued, nfailed,
                   ticks>>

DeliverMotion(t) == Transports[transport].motion # {} /\ Deliver(t, "m_lock")

DeliverRotation(t) == Transports[transport].rotation # {} /\ Deliver(t, "r_lock")

DeliverScope(t) == Transports[transport].scope # {} /\ Deliver(t, "s_lock")

\* The tracked state as the handler finds it.
Tracked == [setpoint |-> setpoint, hwtgt |-> hwtgt, focus |-> focus,
            brightness |-> brightness]

\* with self.scope_lock: at the head of a command callback.
HandlerLock(t, at, next, msgs) ==
    /\ pc[t] = at
    /\ CanAcquire(t)
    /\ lock' = Acquired(t)
    /\ \E m \in msgs : msg' = [msg EXCEPT ![t] = m]
    /\ snap' = [snap EXCEPT ![t] = Tracked]
    /\ Goto(t, next)
    /\ UNCHANGED <<service, timers, hardware, sent, stack, exc, looplocals,
                   retry, ncmds, hwcalls, attempts, warnings, faults, published, issued, nfailed,
                   ticks>>

\* The end of a command callback's with block, reached by falling off its end
\* or by an exception: the lock is released and the callback is over.
HandlerUnlock(t, at) ==
    /\ pc[t] = at
    /\ lock' = Released(t)
    /\ Goto(t, "idle")
    /\ msg' = [msg EXCEPT ![t] = NoMsg]
    /\ exc' = [exc EXCEPT ![t] = "none"]
    /\ retry' = [retry EXCEPT ![t] = 0]
    /\ nfailed' = IF exc[t] = "none" THEN nfailed ELSE nfailed + 1
    /\ snap' = [snap EXCEPT ![t] = NoSnap]
    /\ hwcalls' = [hwcalls EXCEPT ![t] = 0]
    /\ attempts' = [attempts EXCEPT ![t] = <<>>]
    /\ warnings' = [warnings EXCEPT ![t] = 0]
    /\ faults' = [faults EXCEPT ![t] = 0]
    /\ published' = [published EXCEPT ![t] = 0]
    /\ UNCHANGED <<service, timers, hardware, sent, stack, looplocals, ncmds,
                   issued, ticks>>

\* self.was_in_motion = True
HandlerLatch(t, at, next) ==
    /\ pc[t] = at
    /\ was_in_motion' = TRUE
    /\ ticks' = <<>>
    /\ Goto(t, next)
    /\ UNCHANGED <<config, setpoint, focus, brightness, timers,
                   hardware, lock, sent, stack, exc, looplocals, cblocals, ncmds,
                   snap, hwcalls, attempts, warnings, faults, published, issued, nfailed>>

\* if msg.<field> is not None: self.stage.Set<axis>(value), which may raise.
StageSet(t, at, field, axis, value, stored, next, out) ==
    /\ pc[t] = at
    /\ IF ~Has(msg[t], field)
       THEN /\ Goto(t, next)
            /\ UNCHANGED <<hwtgt, hwcalls, exc, faults>>
       ELSE /\ hwcalls' = [hwcalls EXCEPT ![t] = @ + 1]
            /\ \/ /\ hwtgt' = [hwtgt EXCEPT ![axis] = value]
                  /\ Goto(t, stored)
                  /\ UNCHANGED <<exc, faults>>
               \/ /\ Raise(t, "TEM3Error")
                  /\ Failed(t)
                  /\ Goto(t, out)
                  /\ UNCHANGED hwtgt
    /\ UNCHANGED <<service, timers, hwpos, eos, defl, lock, sent, stack,
                   looplocals, cblocals, ncmds, snap, attempts, warnings, published, issued,
                   nfailed, ticks>>

\* self.<axis> = msg.<field>
SetpointStore(t, at, axis, value, next) ==
    /\ pc[t] = at
    /\ setpoint' = [setpoint EXCEPT ![axis] = value]
    /\ Goto(t, next)
    /\ UNCHANGED <<config, focus, brightness, was_in_motion, timers,
                   hardware, lock, sent, stack, exc, looplocals, cblocals,
                   observers>>

\* -------------------------------------------------------- motion_callback

MotionSetPc == [x |-> "m_setx", y |-> "m_sety", z |-> "m_setz"]

MotionStorePc == [x |-> "m_x", y |-> "m_y", z |-> "m_z"]

MotionNextPc == [x |-> "m_sety", y |-> "m_setz", z |-> "m_unlock"]

MotionLock(t) == HandlerLock(t, "m_lock", "m_latch", Transports[transport].motion)

MotionLatch(t) == HandlerLatch(t, "m_latch", "m_setx")

\* The set-point stored whether the Set call raised or not.
MotionSetStoring(t, a) ==
    StageSet(t, MotionSetPc[a], a, a, msg[t][a], MotionStorePc[a],
             MotionNextPc[a], MotionStorePc[a])

\* self.stage.SetX(msg.x), SetY(msg.y), SetZ(msg.z)
MotionSet(t, a) ==
    StageSet(t, MotionSetPc[a], a, a, msg[t][a], MotionStorePc[a],
             MotionNextPc[a], "m_unlock")

\* Every commanded value stored in self.x, whichever axis it was for.
MotionStoreX(t, a) ==
    SetpointStore(t, MotionStorePc[a], "x", msg[t][a], MotionNextPc[a])

\* self.x = msg.x, self.y = msg.y, self.z = msg.z
MotionStore(t, a) ==
    SetpointStore(t, MotionStorePc[a], a, msg[t][a], MotionNextPc[a])

MotionUnlock(t) == HandlerUnlock(t, "m_unlock")

\* ------------------------------------------------------ rotation_callback

RotationField == [tx |-> "angle_x", ty |-> "angle_y"]

RotationSetPc == [tx |-> "r_setx", ty |-> "r_sety"]

RotationStorePc == [tx |-> "r_x", ty |-> "r_y"]

RotationNextPc == [tx |-> "r_sety", ty |-> "r_unlock"]

RotationLock(t) == HandlerLock(t, "r_lock", "r_latch", Transports[transport].rotation)

RotationLatch(t) == HandlerLatch(t, "r_latch", "r_setx")

\* self.stage.SetTiltXAngle(msg.angle_x * 180 / pi), SetTiltYAngle likewise
RotationSet(t, a) ==
    StageSet(t, RotationSetPc[a], RotationField[a], a,
             RadToDeg(msg[t][RotationField[a]]), RotationStorePc[a],
             RotationNextPc[a], "r_unlock")

\* self.tx = msg.angle_x, self.ty = msg.angle_y
RotationStore(t, a) ==
    SetpointStore(t, RotationStorePc[a], a, msg[t][RotationField[a]],
                  RotationNextPc[a])

RotationUnlock(t) == HandlerUnlock(t, "r_unlock")

\* --------------------------------------------------------- scope_callback

\* The observer of the relative adjustments: for focus and for brightness, the
\* value the last command asked for, the value the command before it asked for
\* (0 at the start) and the delta the last command sent to the hardware.
Issue(f, v, d) == [issued EXCEPT ![f] = [n |-> IF @.n < MaxCmds THEN @.n + 1 ELSE @.n,
                                         before |-> @.value, value |-> v,
                                         delta |-> d]]

ScopeLock(t) == HandlerLock(t, "s_lock", "s_focus", Transports[transport].scope)

\* What the frame of a scope_callback step leaves alone.
ScopeFrame ==
    UNCHANGED <<config, setpoint, was_in_motion, hwpos, hwtgt, lock,
                sent, stack, looplocals, msg, ncmds, snap, published, nfailed,
                ticks>>

\* self.eos.SetObjFocus(msg.focus - self.focus): a relative adjustment.
FocusDelta(m) == m.focus - focus

ScopeFocus(t) ==
    /\ pc[t] = "s_focus"
    /\ IF ~Has(msg[t], "focus")
       THEN /\ Goto(t, "s_bright")
            /\ UNCHANGED <<eos, hwcalls, issued, exc, faults>>
       ELSE /\ hwcalls' = [hwcalls EXCEPT ![t] = @ + 1]
            /\ \/ /\ eos' = [eos EXCEPT !.focus = @ + FocusDelta(msg[t])]
                  /\ issued' = Issue("focus", msg[t].focus, FocusDelta(msg[t]))
                  /\ Goto(t, "s_bright")
                  /\ UNCHANGED <<exc, faults>>
               \/ /\ Raise(t, "TEM3Error")
                  /\ Failed(t)
                  /\ Goto(t, "s_unlock")
                  /\ UNCHANGED <<eos, issued>>
    /\ UNCHANGED <<focus, brightness, timers, defl, retry, attempts, warnings>>
    /\ ScopeFrame

\* The commanded brightness sent as it is, not as an adjustment.
BrightnessAbsolute(m) == m.brightness

\* self.eos.SetBrightness(msg.brightness - self.brightness)
BrightnessDelta(m) == m.brightness - brightness

ScopeBrightness(t) ==
    /\ pc[t] = "s_bright"
    /\ IF ~Has(msg[t], "brightness")
       THEN /\ Goto(t, "s_mag")
            /\ UNCHANGED <<eos, hwcalls, issued, exc, faults>>
       ELSE /\ hwcalls' = [hwcalls EXCEPT ![t] = @ + 1]
            /\ \/ /\ eos' = [eos EXCEPT !.brightness = @ + BrightnessDelta(msg[t])]
                  /\ issued' = Issue("brightness", msg[t].brightness,
                                      BrightnessDelta(msg[t]))
                  /\ Goto(t, "s_bright_set")
                  /\ UNCHANGED <<exc, faults>>
               \/ /\ Raise(t, "TEM3Error")
                  /\ Failed(t)
                  /\ Goto(t, "s_unlock")
                  /\ UNCHANGED <<eos, issued>>
    /\ UNCHANGED <<focus, brightness, timers, defl, retry, attempts, warnings>>
    /\ ScopeFrame

\* self.brightness = msg.brightness, right after SetBrightness (line 135)
ScopeBrightnessStore(t) ==
    /\ pc[t] = "s_bright_set"
    /\ brightness' = msg[t].brightness
    /\ Goto(t, "s_mag")
    /\ UNCHANGED <<focus, timers, eos, defl, exc, retry, hwcalls, attempts,
                   warnings, faults, issued>>
    /\ ScopeFrame

\* mag_table = ...; assert msg.mag in mag_table; retry = 3
ScopeMag(t) ==
    /\ pc[t] = "s_mag"
    /\ IF ~Has(msg[t], "mag")
       THEN /\ Goto(t, "s_spot")
            /\ UNCHANGED <<exc, retry>>
       ELSE IF msg[t].mag \in DOMAIN SelectTable(msg[t].mag_mode)
            THEN /\ retry' = [retry EXCEPT ![t] = Retries]
                 /\ Goto(t, "s_mode")
                 /\ UNCHANGED exc
            ELSE /\ Raise(t, "AssertionError")
                 /\ Goto(t, "s_unlock")
                 /\ UNCHANGED retry
    /\ UNCHANGED <<focus, brightness, timers, eos, defl, hwcalls, attempts,
                   warnings, faults, issued>>
    /\ ScopeFrame

\* while retry: is over
ScopeModeDone(t) ==
    /\ pc[t] = "s_mode"
    /\ retry[t] = 0
    /\ Goto(t, "s_selector")
    /\ UNCHANGED <<focus, brightness, timers, eos, defl, exc, retry, hwcalls,
                   attempts, warnings, faults, issued>>
    /\ ScopeFrame

\* The exception raised again one turn too early.
ReraisedOnSecond(r) == r <= 2

\* if retry == 1: raise e
Reraised(r) == r = 1

\* One turn of the while loop: try SelectFunctionMode(self.MAG_MODES[mag_mode]);
\* except TEM3Error: warning, and raise on the last turn; finally retry -= 1.
ScopeSelectMode(t) ==
    /\ pc[t] = "s_mode"
    /\ retry[t] > 0
    /\ retry' = [retry EXCEPT ![t] = @ - 1]
    /\ IF msg[t].mag_mode \notin DOMAIN MAG_MODES
       THEN /\ Raise(t, "KeyError")
            /\ Goto(t, "s_unlock")
            /\ UNCHANGED <<eos, hwcalls, attempts, warnings, faults>>
       ELSE /\ hwcalls' = [hwcalls EXCEPT ![t] = @ + 1]
            /\ \/ /\ eos' = [eos EXCEPT !.mode = MAG_MODES[msg[t].mag_mode]]
                  /\ attempts' = [attempts EXCEPT ![t] = Append(@, "ok")]
                  /\ Goto(t, "s_mode")
                  /\ UNCHANGED <<exc, warnings, faults>>
               \/ /\ attempts' = [attempts EXCEPT ![t] = Append(@, "timeout")]
                  /\ warnings' = [warnings EXCEPT ![t] = @ + 1]
                  /\ Failed(t)
                  /\ IF Reraised(retry[t])
                     THEN Raise(t, "TEM3Error") /\ Goto(t, "s_unlock")
                     ELSE Goto(t, "s_mode") /\ UNCHANGED exc
                  /\ UNCHANGED eos
    /\ UNCHANGED <<focus, brightness, timers, defl, issued>>
    /\ ScopeFrame

\* A Set call of the optics that stores `value` in the hardware, or raises.
OpticsSet(t, at, field, next, eos1, defl1) ==
    /\ pc[t] = at
    /\ IF ~Has(msg[t], field)
       THEN /\ Goto(t, next)
            /\ UNCHANGED <<eos, defl, hwcalls, exc, faults>>
       ELSE /\ hwcalls' = [hwcalls EXCEPT ![t] = @ + 1]
            /\ \/ /\ eos' = eos1
                  /\ defl' = defl1
                  /\ Goto(t, next)
                  /\ UNCHANGED <<exc, faults>>
               \/ /\ Raise(t, "TEM3Error")
                  /\ Failed(t)
                  /\ Goto(t, "s_unlock")
                  /\ UNCHANGED <<eos, defl>>
    /\ UNCHANGED <<focus, brightness, timers, retry, attempts, warnings, issued>>
    /\ ScopeFrame

\* self.eos.SetSelector(mag_table[msg.mag])
ScopeSelector(t) ==
    OpticsSet(t, "s_selector", "mag", "s_spot",
              [eos EXCEPT !.selector = SelectTable(msg[t].mag_mode)[msg[t].mag]],
              defl)

\* self.eos.SelectSpotSize(msg.spot_size)
ScopeSpot(t) ==
    OpticsSet(t, "s_spot", "spot_size", "s_cla",
              [eos EXCEPT !.spot = msg[t].spot_size], defl)

\* self.defl.SetCLA1(*msg.beam_offset)
ScopeOffset(t) ==
    OpticsSet(t, "s_cla", "beam_offset", "s_blank", eos,
              [defl EXCEPT !.cla1 = msg[t].beam_offset])

\* self.defl.SetBeamBlank(msg.screen == "down")
ScopeBlank(t) ==
    OpticsSet(t, "s_blank", "screen", "s_sleep", eos,
              [defl EXCEPT !.blank = (msg[t].screen = "down")])

\* time.sleep(self.BEAM_MOVE_TIME): 0.2 s pass, more than the fast period.
ScopeSettle(t) ==
    /\ pc[t] = "s_sleep"
    /\ \E a \in Ages, b \in Ages \ {1} :
          /\ a >= stage_age /\ a >= 1
          /\ b >= scope_age
          /\ stage_age' = a
          /\ scope_age' = b
    /\ Goto(t, "s_store")
    /\ UNCHANGED <<focus, brightness, eos, defl, exc, retry, hwcalls, attempts,
                   warnings, faults, issued>>
    /\ ScopeFrame

\* The tracked focus left as it was.
StoredFocusOld(m) == focus

\* The tracked state after the settle time (lines 157-160).
StoredFocus(m) == IF Has(m, "focus") THEN m.focus ELSE focus

StoredBrightness(m) == IF Has(m, "brightness") THEN m.brightness ELSE brightness

ScopeStore(t) ==
    /\ pc[t] = "s_store"
    /\ focus' = StoredFocus(msg[t])
    /\ brightness' = StoredBrightness(msg[t])
    /\ Goto(t, "s_status")
    /\ UNCHANGED <<timers, eos, defl, exc, retry, hwcalls, attempts, warnings, faults,
                   issued>>
    /\ ScopeFrame

\* self.scope_status(), still inside the with block
ScopeStatusCall(t) ==
    /\ pc[t] = "s_status"
    /\ Call(t, "st_lock", "s_unlock")
    /\ UNCHANGED <<service, timers, hardware, lock, sent, exc, looplocals,
                   cblocals, observers>>

ScopeUnlock(t) == HandlerUnlock(t, "s_unlock")

\* ------------------------------------------------------------- the stage

\* The stage arrives where the last Set calls sent it.
StageMoves ==
    /\ hwpos # hwtgt
    /\ hwpos' = hwtgt
    /\ UNCHANGED <<service, timers, hwtgt, eos, defl, lock, sent, pc, stack, exc,
                   looplocals, cblocals, observers>>

\* ---------------------------------------------------------- specification

LoopNext ==
    \/ RunOnceInMotion \/ RunOncePeriod \/ RunOnceLatch \/ RunOnceStage
    \/ RunOnceScope \/ RunSleep
    \/ InMotionLock \/ InMotionGetPos \/ InMotionUnlock
    \/ StageStatusLock \/ StageStatusGetPos \/ StageStatusInMotion
    \/ StageStatusSendMotion \/ StageStatusSendRotation \/ StageStatusStamp
    \/ StageStatusUnlock

StatusNext(t) ==
    \/ ScopeStatusLock(t) \/ ScopeStatusRead(t) \/ ScopeStatusSend(t)
    \/ ScopeStatusStamp(t) \/ ScopeStatusUnlock(t)

MotionNext(t) ==
    \/ DeliverMotion(t) \/ MotionLock(t) \/ MotionLatch(t) \/ MotionUnlock(t)
    \/ \E a \in TransAxes : MotionSet(t, a) \/ MotionStore(t, a)

RotationNext(t) ==
    \/ DeliverRotation(t) \/ RotationLock(t) \/ RotationLatch(t)
    \/ RotationUnlock(t)
    \/ \E a \in RotAxes : RotationSet(t, a) \/ RotationStore(t, a)

ScopeNext(t) ==
    \/ DeliverScope(t) \/ ScopeLock(t) \/ ScopeFocus(t) \/ ScopeBrightness(t)
    \/ ScopeBrightnessStore(t) \/ ScopeMag(t) \/ ScopeModeDone(t)
    \/ ScopeSelectMode(t) \/ ScopeSelector(t) \/ ScopeSpot(t) \/ ScopeOffset(t)
    \/ ScopeBlank(t) \/ ScopeSettle(t) \/ ScopeStore(t) \/ ScopeStatusCall(t)
    \/ ScopeUnlock(t)

\* The service: the control loop and the three callbacks on two threads.
Next ==
    \/ LoopNext
    \/ \E t \in Threads : StatusNext(t)
    \/ \E t \in Callbacks : MotionNext(t) \/ RotationNext(t) \/ ScopeNext(t)
    \/ StageMoves

Spec == Init /\ [][Next]_vars

\* The service with scope commands only, of every kind.
ScopeInit == Started(StartReadbacks, StartTols, "scope")

NextScope ==
    \/ LoopNext
    \/ \E t \in Threads : StatusNext(t)
    \/ \E t \in Callbacks : ScopeNext(t)

SpecScope == ScopeInit /\ [][NextScope]_vars

\* The service with translation commands only, of every kind.
MotionInit == Started(StartReadbacks, StartTols, "motion")

NextMotion ==
    \/ LoopNext
    \/ \E t \in Threads : StatusNext(t)
    \/ \E t \in Callbacks : MotionNext(t)
    \/ StageMoves

SpecMotion == MotionInit /\ [][NextMotion]_vars

\* The service with rotation commands only, of every kind.
RotationInit == Started(StartReadbacks, StartTols, "rotation")

NextRotation ==
    \/ LoopNext
    \/ \E t \in Threads : StatusNext(t)
    \/ \E t \in Callbacks : RotationNext(t)
    \/ StageMoves

SpecRotation == RotationInit /\ [][NextRotation]_vars

\* The service with commands of the stage only, translations and rotations.
StageInit == Started(StartReadbacks, StartTols, "stage")

NextStage ==
    \/ LoopNext
    \/ \E t \in Threads : StatusNext(t)
    \/ \E t \in Callbacks : MotionNext(t) \/ RotationNext(t)
    \/ StageMoves

SpecStage == StageInit /\ [][NextStage]_vars

\* The service with scope commands on two threads, and its scheduling: a
\* thread that can take a step takes one; a callback blocked on the lock gets
\* it, the lock being free again and again (run sleeps 10 ms between two
\* ticks with the lock free, and a handler returns after finitely many
\* steps).  A message is delivered when the transport has one, or never.
LiveInit == Started(StartReadbacks, StartTols, "live")

\* The steps of a scope command once it holds the lock.
ScopeHandles(t) ==
    \/ ScopeFocus(t) \/ ScopeBrightness(t) \/ ScopeBrightnessStore(t)
    \/ ScopeMag(t) \/ ScopeModeDone(t) \/ ScopeSelectMode(t)
    \/ ScopeSelector(t) \/ ScopeSpot(t) \/ ScopeOffset(t) \/ ScopeBlank(t)
    \/ ScopeSettle(t) \/ ScopeStore(t) \/ ScopeStatusCall(t) \/ ScopeUnlock(t)
    \/ StatusNext(t)

Scheduling ==
    /\ WF_vars(LoopNext \/ StatusNext(Loop))
    /\ \A t \in Callbacks : WF_vars(ScopeHandles(t)) /\ SF_vars(ScopeLock(t))

SpecLive == LiveInit /\ [][NextScope]_vars /\ Scheduling

\* The control loop alone, no command delivered.
NextLoop ==
    \/ LoopNext
    \/ \E t \in Threads : StatusNext(t)

\* The service as constructed over a stage at rest anywhere, tilted or not.
AnyReadbacks == [x : {0, 100}, y : {0}, z : {0, 40}, tx : {0, 100, 500},
                 ty : {0, 100}]

StartupInit == Started(AnyReadbacks, StartTols, "none")

SpecStartup == StartupInit /\ [][NextLoop]_vars

\* in_motion over set-points, read-backs and tolerances of every kind: the
\* service as commands and the stage's travel may have left it.
AnySetpoints == [x : {0, 100}, y : {0, 61}, z : {0}, tx : {0, 349, 350, 1745},
                 ty : {0}]

SomeReadbacks == [x : {0, 40}, y : {0}, z : {0}, tx : {0, 100}, ty : {0}]

AnyTols == [trans : {40, DefaultTransTol}, rot : {175, DefaultRotTol}]

InMotionInit ==
    \E sp \in AnySetpoints, r \in SomeReadbacks, tol \in AnyTols :
        Constructed(r, tol, sp, "none")

SpecInMotion == InMotionInit /\ [][NextLoop]_vars

\* ------------------------------------------------------------- properties

\* The deviation of an axis as the specification defines it: device units for
\* x, y, z; radians on both sides for the tilts, the read-back converted.
Deviation(sp, p, a) ==
    IF a \in TransAxes THEN Abs(sp[a] - p[a]) ELSE Abs(sp[a] - DegToRad(p[a]))

Tolerance(a) == IF a \in TransAxes THEN trans_tol ELSE rot_tol

\* in_motion has returned a value to the control loop, which still holds the
\* read-back it was computed from.
InMotionReturned == pc[Loop] = "im_unlock" /\ exc[Loop] = "none"

\* C1: for every set-point, read-back and pair of tolerances, in_motion
\* returns true if and only if the deviation of at least one of the five axes
\* strictly exceeds its tolerance, the tilt deviations taken with set-point
\* and read-back both in radians.
C1_InMotionIffDeviation ==
    InMotionReturned =>
        (im_ret <=> \E a \in Axes : Deviation(setpoint, rb, a) > Tolerance(a))

\* C2: between two commands, a tick that finds the stage in motion uses the
\* fast period, and so does the tick after it even if the motion is over by
\* then; a tick that finds no motion after a tick that found none uses the slow
\* period.
C2_StickyLatch ==
    \A i \in 1..Len(ticks) :
        /\ ticks[i].in_motion => ticks[i].period = FastPeriod
        /\ i > 1 =>
              /\ ticks[i - 1].in_motion => ticks[i].period = FastPeriod
              /\ (~ticks[i - 1].in_motion /\ ~ticks[i].in_motion)
                    => ticks[i].period = SlowPeriod

\* A tick in motion at the fast period, then a tick at rest still at the fast
\* period.
C2_Witness ==
    ticks = << [in_motion |-> TRUE, period |-> FastPeriod],
               [in_motion |-> FALSE, period |-> FastPeriod] >>

\* A scope command is about to return with an exception.
ScopeFailed(t) == pc[t] = "s_unlock" /\ exc[t] # "none"

\* C3: when a scope command fails, for whatever reason, the tracked focus and
\* brightness and the stage set-points are what they were before the command.
C3_FailedCommandLeavesState ==
    \A t \in Callbacks :
        ScopeFailed(t) => /\ focus = snap[t].focus
                          /\ brightness = snap[t].brightness
                          /\ setpoint = snap[t].setpoint

\* C4: whenever the lock is free, the tracked focus and brightness equal the
\* initial values plus the deltas the hardware accepted, that is the values
\* the hardware holds.
C4_NoDrift ==
    lock = Free => focus = eos.focus /\ brightness = eos.brightness

\* C5: a scope command whose mag is not a key of the table its mag_mode
\* selects is rejected with no hardware call made for it and the tracked state
\* as it was.
C5_RejectedBeforeHardware ==
    \A t \in Callbacks :
        (pc[t] = "s_unlock" /\ exc[t] = "AssertionError")
            => /\ hwcalls[t] = 0
               /\ focus = snap[t].focus
               /\ brightness = snap[t].brightness

TwoTimeouts == << "timeout", "timeout" >>

ThirdSucceeds == << "timeout", "timeout", "ok" >>

\* C6: when mode selection times out on the first and on the second attempt,
\* a third attempt is made, two warnings are logged and nothing is raised;
\* when the third succeeds, the loop ends without an exception and, no other
\* hardware call failing, the command returns normally with the selector set
\* to the table's index.
C6_ThirdAttemptSucceeds ==
    \A t \in Callbacks :
        /\ attempts[t] = TwoTimeouts
              => /\ pc[t] = "s_mode"
                 /\ exc[t] = "none"
                 /\ retry[t] = 1
                 /\ warnings[t] = 2
        /\ attempts[t] = ThirdSucceeds
              => /\ warnings[t] = 2
                 /\ retry[t] = 0
                 /\ pc[t] = "s_mode" => exc[t] = "none"
                 /\ (pc[t] = "s_unlock" /\ faults[t] = 2)
                       => /\ exc[t] = "none"
                          /\ eos.mode = MAG_MODES[msg[t].mag_mode]
                          /\ eos.selector =
                                SelectTable(msg[t].mag_mode)[msg[t].mag]

\* The command with mag 120 in the low-mag table (index 2) returns normally
\* after two timeouts and a success.
C6_Witness ==
    \E t \in Callbacks :
        /\ pc[t] = "s_unlock"
        /\ attempts[t] = ThirdSucceeds
        /\ exc[t] = "none"
        /\ warnings[t] = 2
        /\ msg[t].mag = 120
        /\ eos.selector = 2

\* C7: as long as no scope command has failed, the delta a command sends for
\* focus or brightness is the commanded value minus the value the command
\* before it left tracked: the value tracked when the handler was entered,
\* and the value the last command carrying the field asked for.
C7_DeltaCorrectness ==
    /\ \A t \in Callbacks :
          /\ pc[t] = "s_bright_set"
                => issued["brightness"].delta =
                      msg[t].brightness - snap[t].brightness
          /\ (pc[t] = "s_bright" /\ Has(msg[t], "focus") /\ exc[t] = "none")
                => issued["focus"].delta = msg[t].focus - snap[t].focus
    /\ nfailed = 0 =>
          \A f \in {"focus", "brightness"} :
              issued[f].n > 0 => issued[f].delta = issued[f].value - issued[f].before

\* brightness 10, then brightness 25: the second delta is 15.
C7_Witness ==
    /\ nfailed = 0
    /\ issued["brightness"] = [n |-> 2, before |-> 10, value |-> 25, delta |-> 15]

MotionBody == {"m_latch", "m_setx", "m_x", "m_sety", "m_y", "m_setz", "m_z",
               "m_unlock"}

\* C8: throughout a translation command, the set-point and the hardware
\* target of every axis absent from it are what they were when the handler
\* started; when the handler returns normally, the set-point and the hardware
\* target of every axis present are the commanded values.
C8_AbsentAxesUntouched ==
    \A t \in Callbacks :
        pc[t] \in MotionBody =>
            /\ \A a \in Axes :
                  ~Has(msg[t], a) => /\ setpoint[a] = snap[t].setpoint[a]
                                     /\ hwtgt[a] = snap[t].hwtgt[a]
            /\ (pc[t] = "m_unlock" /\ exc[t] = "none") =>
                  \A a \in TransAxes :
                      Has(msg[t], a) => /\ setpoint[a] = msg[t][a]
                                        /\ hwtgt[a] = msg[t][a]

\* A command with only z set returns, x having been commanded before:
\* x is where it was, z is the commanded value.
C8_Witness ==
    \E t \in Callbacks :
        /\ pc[t] = "m_unlock"
        /\ exc[t] = "none"
        /\ msg[t].has = {"z"}
        /\ snap[t].setpoint["x"] = 100
        /\ snap[t].setpoint["z"] = 0
        /\ setpoint["x"] = 100
        /\ setpoint["z"] = 100

\* C9: at the start, whatever the first read-back, tilted or not, the stage
\* at rest and no command received, in_motion is false.
C9_StartupNotInMotion ==
    (InMotionReturned /\ ncmds = 0 /\ hwpos = hwtgt) => ~im_ret

\* The positions at which a thread is in a call of the hardware.
HardwarePcs == {"im_getpos", "ss_getpos", "st_read", "m_setx", "m_sety",
                "m_setz", "r_setx", "r_sety", "s_focus", "s_bright", "s_mode",
                "s_selector", "s_spot", "s_cla", "s_blank"}

\* The positions at which a callback has not entered its with block.
WaitingPcs == {"idle", "m_lock", "r_lock", "s_lock"}

\* C10: a thread in a hardware call holds the lock, at most one thread is in
\* a hardware call, and while a command handler is in its with block the
\* control loop is in no read-back.
C10_MutualExclusion ==
    /\ \A t \in Threads :
          pc[t] \in HardwarePcs => lock.owner = t /\ lock.count >= 1
    /\ \A t1, t2 \in Threads :
          (pc[t1] \in HardwarePcs /\ pc[t2] \in HardwarePcs) => t1 = t2
    /\ \A t \in Callbacks :
          pc[t] \notin WaitingPcs =>
              /\ lock.owner = t
              /\ pc[Loop] \notin HardwarePcs

\* A callback is in a hardware call while the other callback and the control
\* loop wait for the lock.
C10_Witness ==
    \E t1, t2 \in Callbacks :
        /\ pc[t1] \in HardwarePcs
        /\ pc[t2] \in {"m_lock", "r_lock", "s_lock"}
        /\ pc[Loop] \in {"im_lock", "ss_lock", "st_lock"}

\* C12: mode selection stops at the first attempt that succeeds: no attempt
\* follows a success, and the command fails through the retry path, its third
\* attempt timing out, only when all three attempts timed out.
C12_StopsAtFirstSuccess ==
    \A t \in Callbacks :
        /\ \A i \in 1..Len(attempts[t]) :
              i < Len(attempts[t]) => attempts[t][i] = "timeout"
        /\ (Len(attempts[t]) = 3 /\ attempts[t][3] = "timeout")
              => attempts[t] = << "timeout", "timeout", "timeout" >>

\* C13: after rotation commands that all succeeded, the tilt read-back being
\* the angle the handler sent to the hardware and the translation axes at
\* their set-points, in_motion returns false.
C13_RotationConverges ==
    ( /\ InMotionReturned
      /\ ncmds > 0
      /\ nfailed = 0
      /\ rb = hwtgt
      /\ \A a \in TransAxes : rb[a] = setpoint[a]
      /\ \A a \in RotAxes : rb[a] = RadToDeg(setpoint[a]) )
        => ~im_ret

\* The positions at which a thread is about to write tracked state: the
\* set-points, focus and brightness, the latch, the two timers.
WritePcs == {"ro_latch", "m_latch", "r_latch", "m_x", "m_y", "m_z", "r_x",
             "r_y", "s_bright_set", "s_store", "ss_stamp", "st_stamp"}

\* C14: a thread that writes tracked state holds the lock at the write.
C14_WritesUnderLock ==
    \A t \in Threads : pc[t] \in WritePcs => lock.owner = t

\* C18: the in_motion value a tick publishes in its stage status is the one
\* its pacing decision used.
C18_OneEvaluationPerTick ==
    pc[Loop] \in {"ss_send2", "ss_stamp"}
        => sent.motion.in_motion = ro_in_motion

\* The positions of a translation or rotation handler after it set the latch.
AfterLatchPcs == {"m_setx", "m_x", "m_sety", "m_y", "m_setz", "m_z",
                  "m_unlock", "r_setx", "r_x", "r_sety", "r_y", "r_unlock"}

\* C19: the latch a command set is not lost to a concurrent tick: it is
\* still set while the command has not completed, no tick having evaluated
\* motion after the command.
C19_LatchNotLost ==
    \A t \in Callbacks : pc[t] \in AfterLatchPcs => was_in_motion

\* C20: a hardware call that raises during a tick never ends the control
\* loop.
C20_LoopSurvives == pc[Loop] # "dead"

\* The value of the last Set call that returned on an axis, or the first
\* read-back, is the axis's set-point: as it is for x, y, z, in degrees for
\* the tilts.
Applied(a) ==
    IF a \in TransAxes THEN setpoint[a] = hwtgt[a]
    ELSE hwtgt[a] = RadToDeg(setpoint[a])

FieldOf(a) == IF a \in TransAxes THEN a ELSE RotationField[a]

\* The axes a stage command carries, in the order the handler takes them.
Commanded(t) ==
    SelectSeq(IF msg[t].kind = "motion" THEN << "x", "y", "z" >>
              ELSE << "tx", "ty" >>,
              LAMBDA a : Has(msg[t], FieldOf(a)))

\* C15: with the lock free, every set-point is the first read-back or the
\* value of the last Set call that returned on its axis; when a Set call
\* raises, the handler leaves with the set-points of the axes before it at
\* their commanded values and those of the failing axis and of the axes after
\* it as they were.
C15_SetpointApplied ==
    /\ lock = Free => \A a \in Axes : Applied(a)
    /\ \A t \in Callbacks :
          (pc[t] \in {"m_unlock", "r_unlock"} /\ exc[t] # "none") =>
              /\ \A a \in Axes : Applied(a)
              /\ \A i \in 1..Len(Commanded(t)) :
                    setpoint[Commanded(t)[i]] =
                        IF i < hwcalls[t]
                        THEN msg[t][FieldOf(Commanded(t)[i])]
                        ELSE snap[t].setpoint[Commanded(t)[i]]

\* A translation command with x, y, z leaves after SetY raised: x is the
\* commanded value, y and z are as they were.
C15_Witness ==
    \E t \in Callbacks :
        /\ pc[t] = "m_unlock"
        /\ exc[t] = "TEM3Error"
        /\ msg[t].has = MotionFields
        /\ hwcalls[t] = 2
        /\ snap[t].setpoint = ZeroPos
        /\ setpoint = [ZeroPos EXCEPT !["x"] = 100]
        /\ hwtgt = setpoint

\* The positions at which the control loop is publishing a status.
LoopPublishPcs == {"ss_getpos", "ss_inmotion", "ss_send1", "ss_send2",
                   "ss_stamp", "st_read", "st_send", "st_stamp"}

\* The value of a field a scope command leaves tracked: the commanded value,
\* or the one the handler found.
Expected(t, f) == IF Has(msg[t], f) THEN msg[t][f] ELSE snap[t][f]

\* C16: a scope command that returns normally has published one scope.status,
\* a command that fails none; the message is sent with the lock held, after
\* the settle delay, and carries the focus and brightness the command leaves
\* tracked; while the handler is in its with block the control loop publishes
\* no status.
C16_OneStatusPerCommand ==
    \A t \in Callbacks :
        /\ published[t] <= 1
        /\ pc[t] = "s_unlock" => published[t] = IF exc[t] = "none" THEN 1 ELSE 0
        /\ pc[t] = "st_stamp" =>
              /\ lock.owner = t
              /\ stage_age >= 1
              /\ published[t] = 1
              /\ sent.scope.topic = "scope.status"
              /\ sent.scope.focus = Expected(t, "focus")
              /\ sent.scope.brightness = Expected(t, "brightness")
              /\ focus = Expected(t, "focus")
              /\ brightness = Expected(t, "brightness")
        /\ pc[t] \notin WaitingPcs =>
              /\ pc[Loop] \notin LoopPublishPcs
              /\ sent.motion = NoPayload
              /\ sent.rotation = NoPayload

\* The command {focus: 5, brightness: 10} has just published its status.
C16_Witness ==
    \E t \in Callbacks :
        /\ pc[t] = "st_stamp"
        /\ msg[t].has = {"focus", "brightness"}
        /\ published[t] = 1
        /\ sent.scope.focus = 5
        /\ sent.scope.brightness = 10

\* C17: in a stage_status call the motion status and the rotation status
\* carry the same in_motion value, the one evaluated once before the first
\* message, whatever happened meanwhile; last_stage_status is set after both
\* were sent.
C17_SameInMotion ==
    /\ pc[Loop] = "ss_send2" =>
          /\ sent.motion.topic = "stage.motion.status"
          /\ sent.motion.in_motion = ss_in_motion
          /\ stage_age >= 1
    /\ pc[Loop] = "ss_stamp" =>
          /\ sent.rotation.topic = "stage.rotation.status"
          /\ sent.rotation.in_motion = sent.motion.in_motion
          /\ sent.rotation.in_motion = ss_in_motion
          /\ stage_age >= 1
    /\ (pc[Loop] = "ss_unlock" /\ exc[Loop] = "none") =>
          /\ sent.rotation.in_motion = sent.motion.in_motion
          /\ stage_age = 0

\* Both messages sent with in_motion true although the stage has arrived
\* since the evaluation.
C17_Witness ==
    /\ pc[Loop] = "ss_stamp"
    /\ sent.motion.in_motion
    /\ sent.rotation.in_motion
    /\ ~InMotionOf(setpoint, hwpos, trans_tol, rot_tol)

\* The positions inside a with block of the lock.
LockedPcs == {"im_getpos", "im_unlock", "ss_getpos", "ss_inmotion", "ss_send1",
              "ss_send2", "ss_stamp", "ss_unlock", "st_read", "st_send",
              "st_stamp", "st_unlock"}
             \cup (AfterLatchPcs \cup {"m_latch", "r_latch"})
             \cup {"s_focus", "s_bright", "s_bright_set", "s_mag", "s_mode",
                   "s_selector", "s_spot", "s_cla", "s_blank", "s_sleep",
                   "s_store", "s_status", "s_unlock"}

\* The with blocks a thread is inside: the one of its position and those of
\* its callers.
Depth(t) ==
    (IF pc[t] \in LockedPcs THEN 1 ELSE 0)
        + Len(SelectSeq(stack[t], LAMBDA ret : ret \in LockedPcs))

\* The lock's hold count is the number of with blocks its owner is inside, and
\* nobody else is inside one: the lock is free when no handler or publisher
\* is executing.
LockBalanced ==
    /\ \A t \in Threads : Depth(t) = IF lock.owner = t THEN lock.count ELSE 0
    /\ lock.owner = "none" <=> lock.count = 0
    /\ lock.owner \in Threads \cup {"none"}

\* C11: the lock is released on every exit path, the nested acquisition of
\* scope_status inside scope_callback included, so its hold count is zero
\* whenever no handler or publisher is executing; and a delivered command
\* waiting for the lock, after a failed command or not, eventually gets it and
\* is processed.
C11_LockReleased ==
    /\ []LockBalanced
    /\ \A t \in Callbacks : (pc[t] = "s_lock") ~> (pc[t] = "idle")

\* After a failed command, a later command holds the lock twice, in the
\* scope_status its handler calls.
C11_Witness ==
    \E t \in Callbacks :
        /\ nfailed >= 1
        /\ pc[t] = "st_read"
        /\ lock = [owner |-> t, count |-> 2]

====
